---- MODULE Spec2Model ----
(***************************************************************************)
(* A model of the analysis-essentials repository:                          *)
(*   - the "Build webpage" GitHub Actions workflow (triggers, concurrency   *)
(*     group, the build-pages job, its five steps and the script of the     *)
(*     deploy step), and                                                    *)
(*   - the sWeights computations that the sPlot notebook describes, and its *)
(*     two-bin example,                                                     *)
(*   - the expressions of the notebook on Python's special methods, and     *)
(*   - the cells of the first-look notebook on a J/psi data sample and the  *)
(*     data files they read.                                                *)
(***************************************************************************)
EXTENDS Integers, Sequences, FiniteSets, TLC

VARIABLES
    runs,       \* the workflow runs started so far, oldest first
    event,      \* the webhook event delivered last (NoEvent before the first)
    pc,         \* the sPlot notebook: the cell executed last
    pdf,        \* per event, the signal and background density values
    yields,     \* the fitted signal and background yields
    weights,    \* the sWeights of hepstats' compute_sweights(model, data_sw)
    probs,      \* per event, the normalised signal and background probabilities
    sWeights,   \* the sWeights of hep_ml's splot.compute_sweights(probs)
    base,       \* the sWeights computed before one event's densities were rescaled
    bin_weights,    \* two-bin example: the weights given to plot_with_weights
    reconstructed,  \* two-bin example: the weighted totals of the histogram
    expr,       \* special methods: the expression being evaluated
    outcome,    \* special methods: what its evaluation gave
    cell,       \* first look: the cell executed last
    data_df,    \* first look: the data sample
    bkg_df,     \* first look: the rows selected as background
    hist,       \* first look: h, bins of plot_mass
    mc_df,      \* first look: the simulated sample
    files,      \* first look: the data files, the names bound to them, the reads made
    shell       \* workflow: the shell of the "Deploy webpage" step

wfVars == <<runs, event, shell>>
swVars == <<pc, pdf, yields, weights, probs, sWeights, base>>
lessonVars ==
    <<bin_weights, reconstructed, expr, outcome, cell, data_df, bkg_df, hist, mc_df, files>>
vars == <<runs, event, shell, pc, pdf, yields, weights, probs, sWeights, base, lessonVars>>

(***************************************************************************)
(* Bounds of the model.                                                    *)
(***************************************************************************)
MaxRuns == 2
MaxEvents == 3
MaxFactor == 2
MaxRows == 3

(***************************************************************************)
(* The workflow file.                                                      *)
(***************************************************************************)
Upstream == "hsf-training/analysis-essentials"
Fork == "someone/analysis-essentials"
Repositories == {Upstream, Fork}

\* A git ref is the sequence of its path segments: refs/heads/master is
\* <<"refs", "heads", "master">>.
MasterRef == <<"refs", "heads", "master">>
DevRef == <<"refs", "heads", "dev">>
TagRef == <<"refs", "tags", "v1">>
SlashTagRef == <<"refs", "tags", "release", "v1">>
PullRef == <<"refs", "pull", "1", "merge">>

IsBranch(ref) == Len(ref) >= 3 /\ ref[1] = "refs" /\ ref[2] = "heads"
IsTag(ref) == Len(ref) >= 3 /\ ref[1] = "refs" /\ ref[2] = "tags"
\* The name of a branch or tag: the segments after refs/heads/ or refs/tags/.
RefName(ref) == SubSeq(ref, 3, Len(ref))

\* The activity types a `pull_request:` trigger without `types:` listens to.
DefaultPullRequestTypes == {"opened", "synchronize", "reopened"}

\* The events that can be delivered to a repository holding the workflow.
\* A pull_request event carries the merge ref of the pull request.
PushRefs == {MasterRef, DevRef, TagRef, SlashTagRef}
PullRequestActions == {"synchronize", "closed"}
Events ==
    [event_name : {"push"}, action : {"none"}, repository : Repositories, ref : PushRefs]
    \cup
    [event_name : {"pull_request"}, action : PullRequestActions,
     repository : Repositories, ref : {PullRef}]

NoEvent == [event_name |-> "none", action |-> "none", repository |-> "none", ref |-> <<>>]

\* The filter pattern "*": any run of characters without a "/", so it
\* matches a name of exactly one path segment.
MatchesStar(name) == Len(name) = 1
\* The filter pattern "master".
MatchesMaster(name) == name = <<"master">>

\* Mutant: the push trigger without its `branches` filter.
OnTriggersAnyBranch(e) ==
    \/ e.event_name = "pull_request" /\ e.action \in DefaultPullRequestTypes
    \/ /\ e.event_name = "push"
       /\ \/ IsTag(e.ref) /\ MatchesStar(RefName(e.ref))
          \/ IsBranch(e.ref)

\* on: pull_request (default activity types); push to tags "*" or the
\* branch master.
OnTriggers(e) ==
    \/ e.event_name = "pull_request" /\ e.action \in DefaultPullRequestTypes
    \/ /\ e.event_name = "push"
       /\ \/ IsTag(e.ref) /\ MatchesStar(RefName(e.ref))
          \/ IsBranch(e.ref) /\ MatchesMaster(RefName(e.ref))

\* Mutant: one concurrency group for the whole workflow, whatever the ref.
ConcurrencyGroupWorkflow(run) == <<run.repository, "Build webpage">>

\* concurrency.group: ${{ github.ref }}; groups belong to one repository.
ConcurrencyGroup(run) == <<run.repository, run.ref>>
\* concurrency.cancel-in-progress
CancelInProgress == TRUE

\* jobs.build-pages.if
JobIf(run) ==
    run.event_name = "pull_request" \/ run.repository = Upstream

StepNames == <<"Checkout code", "setup-miniconda", "Install starterkit-ci",
               "Build webpage", "Deploy webpage">>
NSteps == Len(StepNames)
Checkout == 1
SetupConda == 2
Install == 3
Build == 4
Deploy == 5

\* Mutant: the deploy condition without its test of the ref.
DeployIfAnyRef(run) ==
    /\ run.event_name = "push"
    /\ run.repository = Upstream

\* The `if:` of the "Deploy webpage" step.  A condition without a status
\* function is evaluated only when every earlier step succeeded.
DeployIf(run) ==
    /\ run.event_name = "push"
    /\ run.repository = Upstream
    /\ run.ref = MasterRef

\* The `if:` of step i; the first four steps have none.
StepIf(run, i) == IF i = Deploy THEN DeployIf(run) ELSE TRUE

ExitCodes == {0, 1}

(***************************************************************************)
(* Runs.                                                                    *)
(***************************************************************************)
StepStates == {"pending", "running", "success", "failure", "skipped", "cancelled"}
Terminal == {"success", "failure", "cancelled", "skipped"}
Executed == {"running", "success", "failure", "cancelled"}

AllSteps(s) == [i \in 1..NSteps |-> s]

\* The step of an in-progress run that is running.
RunningStep(run) == CHOOSE i \in 1..NSteps : run.steps[i] = "running"

\* A run is cancelled: its running step is interrupted, the rest never start.
Cancel(run) ==
    [run EXCEPT !.status = "cancelled",
                !.steps = [i \in 1..NSteps |->
                              IF run.steps[i] = "running" THEN "cancelled"
                              ELSE IF run.steps[i] = "pending" THEN "skipped"
                              ELSE run.steps[i]]]

\* The run an event starts: the job is skipped when its `if` is false,
\* otherwise the first step starts.
NewRun(e) ==
    LET ctx == [event_name |-> e.event_name, repository |-> e.repository, ref |-> e.ref]
    IN  IF JobIf(ctx)
        THEN [event_name |-> e.event_name, repository |-> e.repository, ref |-> e.ref,
              status |-> "in_progress",
              steps |-> [i \in 1..NSteps |-> IF i = Checkout THEN "running" ELSE "pending"]]
        ELSE [event_name |-> e.event_name, repository |-> e.repository, ref |-> e.ref,
              status |-> "skipped", steps |-> AllSteps("skipped")]

\* Starting `new` cancels the runs in progress in its concurrency group.
Supersede(old, new) ==
    IF /\ CancelInProgress
       /\ old.status = "in_progress"
       /\ ConcurrencyGroup(old) = ConcurrencyGroup(new)
    THEN Cancel(old)
    ELSE old

\* An event is delivered: it starts a run when the `on` filter admits it.
Deliver(e) ==
    /\ event' = e
    /\ shell' = shell
    /\ UNCHANGED swVars
    /\ UNCHANGED lessonVars
    /\ IF OnTriggers(e)
       THEN /\ Len(runs) < MaxRuns
            /\ runs' = Append([i \in DOMAIN runs |-> Supersede(runs[i], NewRun(e))],
                              NewRun(e))
       ELSE runs' = runs

\* What a successful exit of step i does to a run: the next step starts if
\* its `if` holds; with no step left, or the last one skipped, the job succeeds.
Advance(run, i) ==
    IF i = NSteps
    THEN [run EXCEPT !.status = "success", !.steps[i] = "success"]
    ELSE IF StepIf(run, i + 1)
    THEN [run EXCEPT !.steps[i] = "success", !.steps[i + 1] = "running"]
    ELSE [run EXCEPT !.status = "success",
                     !.steps[i] = "success", !.steps[i + 1] = "skipped"]

\* Mutant: continue-on-error, a failed step is recorded and the job goes on.
FailContinue(run, i) ==
    IF i = NSteps
    THEN [run EXCEPT !.status = "success", !.steps[i] = "failure"]
    ELSE [run EXCEPT !.steps[i] = "failure", !.steps[i + 1] = "running"]

\* Mutant: the deploy step runs with `always()`, also after a failed step.
FailDeployAlways(run, i) ==
    IF i < Deploy /\ DeployIf(run)
    THEN [run EXCEPT !.steps = [j \in 1..NSteps |->
                              IF j = i THEN "failure"
                              ELSE IF j = Deploy THEN "running"
                              ELSE IF j > i THEN "skipped"
                              ELSE run.steps[j]]]
    ELSE [run EXCEPT !.status = "failure",
                     !.steps = [j \in 1..NSteps |->
                              IF j = i THEN "failure"
                              ELSE IF j > i THEN "skipped"
                              ELSE run.steps[j]]]

\* Mutant: a failed job is retried from its first step.
FailRetry(run, i) ==
    [run EXCEPT !.steps = [j \in 1..NSteps |->
                              IF j = Checkout THEN "running" ELSE "pending"]]

\* What a non-zero exit of step i does to a run: the job fails and the
\* later steps never start.
Fail(run, i) ==
    [run EXCEPT !.status = "failure",
                !.steps = [j \in 1..NSteps |->
                              IF j = i THEN "failure"
                              ELSE IF j > i THEN "skipped"
                              ELSE run.steps[j]]]

\* The outcome of step i of a run exiting with `code`.
StepExit(run, i, code) ==
    IF code # 0 THEN Fail(run, i) ELSE Advance(run, i)

\* The running step of run r exits with `code`.
FinishStep(r, code) ==
    /\ r \in DOMAIN runs
    /\ runs[r].status = "in_progress"
    /\ LET run == runs[r]
           i == RunningStep(run)
       IN  /\ event' = event
           /\ shell' = shell
           /\ UNCHANGED swVars
           /\ UNCHANGED lessonVars
           /\ runs' = [runs EXCEPT ![r] = StepExit(run, i, code)]

WorkflowInit ==
    /\ runs = <<>>
    /\ event = NoEvent
    /\ shell = [line |-> "none"]

(***************************************************************************)
(* Exact arithmetic.  A number of the notebook is a reduced fraction       *)
(* <<numerator, denominator>> with a positive denominator; NaN is the       *)
(* result of 0/0.                                                           *)
(***************************************************************************)
NaN == <<0, 0>>
IsNaN(a) == a[2] = 0

Abs(x) == IF x < 0 THEN -x ELSE x

RECURSIVE GCD(_, _)
GCD(a, b) == IF b = 0 THEN a ELSE GCD(b, a % b)

Rat(n, d) ==
    IF d = 0 THEN NaN
    ELSE LET g == GCD(Abs(n), Abs(d))
         IN  IF d < 0 THEN <<(-n) \div g, (-d) \div g>> ELSE <<n \div g, d \div g>>

Num(k) == <<k, 1>>
Zero == Num(0)
One == Num(1)

RAdd(a, b) ==
    IF IsNaN(a) \/ IsNaN(b) THEN NaN
    ELSE LET l == (a[2] \div GCD(a[2], b[2])) * b[2]
         IN  Rat(a[1] * (l \div a[2]) + b[1] * (l \div b[2]), l)

RNeg(a) == <<-a[1], a[2]>>
RSub(a, b) == RAdd(a, RNeg(b))

RMul(a, b) ==
    IF IsNaN(a) \/ IsNaN(b) THEN NaN
    ELSE LET g1 == GCD(Abs(a[1]), b[2])
             g2 == GCD(Abs(b[1]), a[2])
         IN  Rat((a[1] \div g1) * (b[1] \div g2), (a[2] \div g2) * (b[2] \div g1))

\* a / b for b # 0; 0/0 is NaN.
RDiv(a, b) ==
    IF IsNaN(a) \/ IsNaN(b) \/ b[1] = 0 THEN NaN
    ELSE IF b[1] < 0 THEN RMul(a, <<-b[2], -b[1]>>)
    ELSE RMul(a, <<b[2], b[1]>>)

\* The sum of a sequence of numbers.
RECURSIVE RSum(_)
RSum(xs) == IF xs = <<>> THEN Zero ELSE RAdd(Head(xs), RSum(Tail(xs)))

\* a < b and a <= b; a comparison with NaN is false.
RLess(a, b) == ~IsNaN(a) /\ ~IsNaN(b) /\ RSub(a, b)[1] < 0
RLeq(a, b) == ~IsNaN(a) /\ ~IsNaN(b) /\ RSub(a, b)[1] <= 0

(***************************************************************************)
(* The other notebooks before any of their cells has run.                   *)
(***************************************************************************)
NotPlotted == [plotted |-> FALSE, electron |-> Zero, positron |-> Zero]
ToyIdle == bin_weights = <<>> /\ reconstructed = NotPlotted

NoOutcome == [kind |-> "none"]
DunderIdle == expr = [op |-> "none"] /\ outcome = NoOutcome

LookIdle ==
    /\ cell = "idle"
    /\ data_df = <<>>
    /\ bkg_df = <<>>
    /\ hist = [h |-> <<>>, bins |-> <<>>]
    /\ mc_df = <<>>
    /\ files = [pc |-> "none"]

LessonsIdle == ToyIdle /\ DunderIdle /\ LookIdle

(***************************************************************************)
(* The sPlot notebook.                                                      *)
(***************************************************************************)
Classes == {"sig", "bck"}
Other(n) == IF n = "sig" THEN "bck" ELSE "sig"

\* Density values at an event, in some unit: a gaussian signal density is
\* positive everywhere, an exponential background density is zero below 0.
SigPdfValues == {1, 2}
BckPdfValues == {0, 1, 2}
PdfRows == [sig : {Num(v) : v \in SigPdfValues}, bck : {Num(v) : v \in BckPdfValues}]
\* Fitted yields.
YieldValues == {1, 2}

\* The weight computations are sums over the events and give each event
\* the weight its own densities determine, so one order of a sample stands
\* for all of them: the events in nondecreasing order of their densities.
RowLeq(a, b) ==
    \/ a.sig[1] < b.sig[1]
    \/ a.sig[1] = b.sig[1] /\ a.bck[1] <= b.bck[1]

Samples ==
    {f \in UNION {[1..n -> PdfRows] : n \in 1..MaxEvents} :
        \A e \in 1..(Len(f) - 1) : RowLeq(f[e], f[e + 1])}

\* The outcome of a weight computation.
NoWeights == [status |-> "none", w |-> <<>>]
LinAlgError == [status |-> "LinAlgError", w |-> <<>>]
Produced(w) == [status |-> "ok", w |-> w]

Determinant(a11, a12, a21, a22) == RSub(RMul(a11, a22), RMul(a12, a21))

\* A singular linear system has no solution: the solver raises.
Singular(a11, a12, a21, a22) == Determinant(a11, a12, a21, a22) = Zero

\* The solution <<x1, x2>> of  a11 x1 + a12 x2 = r1,  a21 x1 + a22 x2 = r2.
Solve(a11, a12, a21, a22, r1, r2) ==
    LET det == Determinant(a11, a12, a21, a22)
    IN  <<RDiv(RSub(RMul(r1, a22), RMul(a12, r2)), det),
          RDiv(RSub(RMul(a11, r2), RMul(r1, a21)), det)>>

\* ---- hepstats: weights = compute_sweights(model, data_sw) ----

\* sum_k N_k f_k(x_e)
Mixture(f, N, e) ==
    RAdd(RMul(Num(N.sig), f[e].sig), RMul(Num(N.bck), f[e].bck))

\* Mutant: the denominator of V^-1 not squared.
InverseCovarianceUnsquared(f, N, n, j) ==
    RSum([e \in 1..Len(f) |-> RDiv(RMul(f[e][n], f[e][j]), Mixture(f, N, e))])

\* V^-1_nj = sum_e f_n(x_e) f_j(x_e) / (sum_k N_k f_k(x_e))^2
InverseCovariance(f, N, n, j) ==
    RSum([e \in 1..Len(f) |->
            RDiv(RMul(f[e][n], f[e][j]), RMul(Mixture(f, N, e), Mixture(f, N, e)))])

\* The matrix V^-1 of a sample.
InverseCovarianceMatrix(f, N) ==
    [n \in Classes |-> [j \in Classes |-> InverseCovariance(f, N, n, j)]]

\* Row n of V, the inverse of the matrix Vi: it solves Vi row = unit vector n.
CovarianceRow(Vi, n) ==
    LET row == Solve(Vi[n][n], Vi[n][Other(n)], Vi[Other(n)][n], Vi[Other(n)][Other(n)],
                     One, Zero)
    IN  [j \in Classes |-> IF j = n THEN row[1] ELSE row[2]]

\* W_n(x_e) = sum_j V_nj f_j(x_e) / sum_k N_k f_k(x_e), given row n of V.
W(Vn, f, N, e) ==
    RDiv(RAdd(RMul(Vn.sig, f[e].sig), RMul(Vn.bck, f[e].bck)), Mixture(f, N, e))

HepstatsComputeSWeights(f, N) ==
    LET Vi == InverseCovarianceMatrix(f, N)
    IN  IF Singular(Vi.sig.sig, Vi.sig.bck, Vi.bck.sig, Vi.bck.bck)
        THEN LinAlgError
        ELSE LET V == [n \in Classes |-> CovarianceRow(Vi, n)]
             IN  Produced([e \in 1..Len(f) |-> [n \in Classes |-> W(V[n], f, N, e)]])

\* ---- hep_ml: probs, then sWeights = splot.compute_sweights(probs) ----

\* Mutant: the division taken along the other axis, each class divided by
\* its sum over the events.
NormaliseColumns(f) ==
    [e \in 1..Len(f) |->
        [n \in Classes |-> RDiv(f[e][n], RSum([k \in 1..Len(f) |-> f[k][n]]))]]

\* Mutant: the densities are used as they are, without the normalisation.
Unnormalised(f) == f

\* probs = probs.div(probs.sum(axis=1), axis=0)
Normalise(f) ==
    [e \in 1..Len(f) |->
        [n \in Classes |-> RDiv(f[e][n], RAdd(f[e].sig, f[e].bck))]]

\* Mutant: every second moment taken as the one of class i with itself.
SecondMomentOwn(p, i, j) == RSum([e \in 1..Len(p) |-> RMul(p[e][i], p[e][i])])

\* Mutant: the probabilities of class j read in the reverse order of events.
SecondMomentReversed(p, i, j) ==
    RSum([e \in 1..Len(p) |-> RMul(p[e][i], p[Len(p) + 1 - e][j])])

\* V_ij = sum_x p_i(x) p_j(x)
SecondMoment(p, i, j) == RSum([e \in 1..Len(p) |-> RMul(p[e][i], p[e][j])])

\* N_n, the number of events of class n that the fit gives: the sum of the
\* events' probabilities of being of class n.
ClassYield(p, n) == RSum([e \in 1..Len(p) |-> p[e][n]])

\* The matrix V of a sample of probabilities.
SecondMoments(p) ==
    [i \in Classes |-> [j \in Classes |-> SecondMoment(p, i, j)]]

\* Mutant: the right-hand sides of the two equations exchanged.
CoefficientsSwapped(V, Nn, n) ==
    Solve(V[Other(n)][Other(n)], V[Other(n)][n], V[n][Other(n)], V[n][n], Nn, Zero)

\* <<a1, a2>> for the weight of class n, sw_n = a1 p_o + a2 p_n (o the other
\* class):  a1 V_oo + a2 V_on = 0,  a1 V_no + a2 V_nn = N_n.
Coefficients(V, Nn, n) ==
    Solve(V[Other(n)][Other(n)], V[Other(n)][n], V[n][Other(n)], V[n][n], Zero, Nn)

\* sw_n(x_e) = a1 p_o(x_e) + a2 p_n(x_e)
SWeight(a, p, n, e) ==
    RAdd(RMul(a[1], p[e][Other(n)]), RMul(a[2], p[e][n]))

ComputeSWeights(p) ==
    LET V == SecondMoments(p)
    IN  IF Singular(V.bck.bck, V.bck.sig, V.sig.bck, V.sig.sig)
        THEN LinAlgError
        ELSE LET a == [n \in Classes |-> Coefficients(V, ClassYield(p, n), n)]
             IN  Produced([e \in 1..Len(p) |-> [n \in Classes |-> SWeight(a[n], p, n, e)]])

\* ---- the cells, top to bottom ----

NoBase == [set |-> FALSE, weights |-> NoWeights, sWeights |-> NoWeights]

\* The notebook before any of its sPlot cells has run.
NotebookIdle ==
    /\ pc = "idle"
    /\ pdf = <<>>
    /\ yields = [sig |-> 0, bck |-> 0]
    /\ weights = NoWeights
    /\ probs = <<>>
    /\ sWeights = NoWeights
    /\ base = NoBase

\* The model is fitted: the densities at the events and the yields are known.
Fitted ==
    /\ pc = "fit"
    /\ pdf \in Samples
    /\ yields \in [sig : YieldValues, bck : YieldValues]
    /\ weights = NoWeights
    /\ probs = <<>>
    /\ sWeights = NoWeights
    /\ base = NoBase

\* weights = compute_sweights(model, data_sw)
CellHepstats ==
    /\ pc = "fit"
    /\ weights' = HepstatsComputeSWeights(pdf, yields)
    /\ pc' = "hepstats"
    /\ UNCHANGED <<pdf, yields, probs, sWeights, base>>
    /\ UNCHANGED wfVars
    /\ UNCHANGED lessonVars

\* probs = DataFrame(sig = pdf, bck = pdf); probs = probs.div(...)
CellProbs ==
    /\ pc = "hepstats"
    /\ probs' = Normalise(pdf)
    /\ pc' = "probs"
    /\ UNCHANGED <<pdf, yields, weights, sWeights, base>>
    /\ UNCHANGED wfVars
    /\ UNCHANGED lessonVars

\* sWeights = splot.compute_sweights(probs)
CellSWeights ==
    /\ pc = "probs"
    /\ sWeights' = ComputeSWeights(probs)
    /\ pc' = "done"
    /\ UNCHANGED <<pdf, yields, weights, probs, base>>
    /\ UNCHANGED wfVars
    /\ UNCHANGED lessonVars

\* The densities of event e are multiplied by c > 0 and the cells run again.
Rescale(e, c) ==
    /\ pc = "done"
    /\ ~base.set
    /\ e \in 1..Len(pdf)
    /\ pdf' = [pdf EXCEPT ![e] = [n \in Classes |-> RMul(Num(c), pdf[e][n])]]
    /\ base' = [set |-> TRUE, weights |-> weights, sWeights |-> sWeights]
    /\ pc' = "fit"
    /\ UNCHANGED <<yields, weights, probs, sWeights>>
    /\ UNCHANGED wfVars
    /\ UNCHANGED lessonVars

InitNotebook ==
    /\ WorkflowInit
    /\ Fitted
    /\ LessonsIdle

NextNotebook ==
    \/ CellHepstats
    \/ CellProbs
    \/ CellSWeights
    \/ \E e \in 1..MaxEvents, c \in 2..MaxFactor : Rescale(e, c)

SpecNotebook == InitNotebook /\ [][NextNotebook]_vars

(***************************************************************************)
(* The normalisation cell on its own, applied to any non-negative density   *)
(* values: both densities of an event may be zero.                          *)
(***************************************************************************)
Densities ==
    LET values == {Num(v) : v \in {0, 1, 2}}
    IN  UNION {[1..n -> [sig : values, bck : values]] : n \in 1..MaxEvents}

InitProbs ==
    /\ WorkflowInit
    /\ pc = "fit"
    /\ pdf \in Densities
    /\ yields = [sig |-> 0, bck |-> 0]
    /\ weights = NoWeights
    /\ probs = <<>>
    /\ sWeights = NoWeights
    /\ base = NoBase
    /\ LessonsIdle

\* probs = probs.div(probs.sum(axis=1), axis=0)
ApplyNormalise ==
    /\ pc = "fit"
    /\ probs' = Normalise(pdf)
    /\ pc' = "probs"
    /\ UNCHANGED <<pdf, yields, weights, sWeights, base>>
    /\ UNCHANGED wfVars
    /\ UNCHANGED lessonVars

SpecProbs == InitProbs /\ [][ApplyNormalise]_vars

(***************************************************************************)
(* The two-bin example of the sPlot notebook.  An event is an electron      *)
(* (sig_data) or a positron (bck_data); a bin is known by how many of each  *)
(* it holds.                                                                *)
(***************************************************************************)
size == 10000
n_sig1 == 8000
n_bck1 == 2000
n_sig2 == 2000
n_bck2 == 8000

\* first_bin = np.concatenate([sig_data[:n_sig1], bck_data[:n_bck1]])
first_bin == [electron |-> n_sig1, positron |-> n_bck1]
\* second_bin = np.concatenate([sig_data[n_sig1:], bck_data[n_bck1:]])
second_bin == [electron |-> size - n_sig1, positron |-> size - n_bck1]

\* Mutant: the histogram filled without its weights.
UnweightedTotal(datas, ws, n) ==
    RSum([i \in 1..Len(datas) |-> Num(datas[i][n])])

\* The sum of the entries `weight` of the events of species n:
\* np.ones(len(d)) * w for each bin d.
WeightedTotal(datas, ws, n) ==
    RSum([i \in 1..Len(datas) |-> RMul(Num(datas[i][n]), ws[i])])

\* The weights of the text, in tenths, and those of the two calls of the cell.
BinWeights ==
    LET tenths == {Rat(k, 10) : k \in -10..10}
    IN  (tenths \X tenths) \cup {<<Num(n_bck2), Num(-n_bck1)>>, <<Num(-n_sig2), Num(n_sig1)>>}

InitTwoBin ==
    /\ WorkflowInit
    /\ NotebookIdle
    /\ DunderIdle
    /\ LookIdle
    /\ bin_weights \in BinWeights
    /\ reconstructed = NotPlotted

\* plot_with_weights([first_bin, second_bin], weights)
PlotWithWeights ==
    /\ ~reconstructed.plotted
    /\ reconstructed' =
         [plotted |-> TRUE,
          electron |-> WeightedTotal(<<first_bin, second_bin>>, bin_weights, "electron"),
          positron |-> WeightedTotal(<<first_bin, second_bin>>, bin_weights, "positron")]
    /\ UNCHANGED <<bin_weights, expr, outcome, cell, data_df, bkg_df, hist, mc_df, files>>
    /\ UNCHANGED <<wfVars, swVars>>

SpecTwoBin == InitTwoBin /\ [][PlotWithWeights]_vars

(***************************************************************************)
(* The notebook on special methods: its classes, and Python's rules for    *)
(* finding a method and for evaluating x + y, str(x), repr(x) and x.name.  *)
(***************************************************************************)
\* class c(bases):
Bases(c) ==
    CASE c = "object" -> <<>>
      [] c = "ValueLeft" -> <<"NamedValue">>
      [] c = "ValueRight" -> <<"NamedValue">>
      [] c = "Value" -> <<"ValueRight", "ValueLeft">>
      [] c = "NameRepr" -> <<"Name">>
      [] c = "NameStr" -> <<"Name">>
      [] c = "NameStrRepr" -> <<"NameStr", "NameRepr">>
      [] OTHER -> <<"object">>

\* The names a class body defines (for object: the ones the model needs).
ClassDict(c) ==
    CASE c = "object" -> {"__init__", "__repr__", "__str__", "__class__", "__dict__"}
      [] c = "NamedValue" -> {"__init__"}
      [] c = "ValueLeft" -> {"__add__"}
      [] c = "ValueRight" -> {"__radd__"}
      [] c = "Name" -> {"__init__"}
      [] c = "NameRepr" -> {"__repr__"}
      [] c = "NameStr" -> {"__str__"}
      [] c = "GetAndSet" -> {"__init__", "add", "__getattr__"}
      [] OTHER -> {}

\* The merge of the C3 linearisation: repeatedly take the first head that is
\* in no tail.
RECURSIVE Merge(_)
Merge(seqs) ==
    LET ne == SelectSeq(seqs, LAMBDA q : q # <<>>)
    IN  IF ne = <<>> THEN <<>>
        ELSE LET InTail(h, q) == \E i \in 2..Len(q) : q[i] = h
                 good == {i \in 1..Len(ne) : \A j \in 1..Len(ne) : ~InTail(ne[i][1], ne[j])}
                 k == CHOOSE i \in good : \A j \in good : i <= j
                 h == ne[k][1]
             IN  <<h>> \o Merge([i \in 1..Len(ne) |->
                                    IF ne[i][1] = h THEN Tail(ne[i]) ELSE ne[i]])

\* c.__mro__
RECURSIVE Mro(_)
Mro(c) == <<c>> \o Merge([i \in 1..Len(Bases(c)) |-> Mro(Bases(c)[i])] \o <<Bases(c)>>)

NotFound == "<not found>"

\* The class whose body gives type c its attribute `name`: the first one in
\* the method resolution order that defines it.
Lookup(c, name) ==
    LET m == Mro(c)
        at == {i \in 1..Len(m) : name \in ClassDict(m[i])}
    IN  IF at = {} THEN NotFound ELSE m[CHOOSE i \in at : \A j \in at : i <= j]

\* issubclass(c, d)
IsSubclass(c, d) == \E i \in 1..Len(Mro(c)) : Mro(c)[i] = d

\* Values.  A str is the sequence of the pieces it was put together from.
PyInt(n) == [type |-> "int", v |-> n]
PyStr(s) == [type |-> "str", v |-> s]
None == [type |-> "NoneType"]
NotImplemented == [type |-> "NotImplementedType"]

\* What a call gave: the value returned, the lines printed, and the methods
\* that ran, in order.
Ret(v, lines, ran) == [ret |-> v, printed |-> lines, calls |-> ran]
Skipped == Ret(NotImplemented, <<>>, <<>>)

\* ---- x + y ----

\* ValueLeft.__add__(self, other)
ValueLeft__add__(self, other) ==
    Ret(PyInt(42), << <<"add called on ">> \o self.name >>, << <<"ValueLeft", "__add__">> >>)

\* ValueRight.__radd__(self, other): the text printed is no f-string.
ValueRight__radd__(self, other) ==
    Ret(PyInt(24), << <<"radd called on {self.name}">> >>, << <<"ValueRight", "__radd__">> >>)

\* The method `name` of obj's type called with the other operand; a type
\* without the method answers NotImplemented.
CallMaybe(obj, name, other) ==
    LET c == Lookup(obj.class, name)
    IN  IF c = "ValueLeft" /\ name = "__add__" THEN ValueLeft__add__(obj, other)
        ELSE IF c = "ValueRight" /\ name = "__radd__" THEN ValueRight__radd__(obj, other)
        ELSE Skipped

\* The type of `right` gives __radd__ and it is not the one of `left`'s type.
MethodIsOverloaded(left, right) ==
    /\ Lookup(right.class, "__radd__") # NotFound
    /\ Lookup(left.class, "__radd__") # Lookup(right.class, "__radd__")

\* raise exception
Raise(exception) == [type |-> "raise", exception |-> exception]

\* Mutant: the left operand's __add__ always goes first.
BinaryAddLeftFirst(x, y) ==
    LET second == CallMaybe(x, "__add__", y)
        third == IF x.class # y.class THEN CallMaybe(y, "__radd__", x) ELSE Skipped
    IN  IF second.ret # NotImplemented THEN second
        ELSE IF third.ret # NotImplemented THEN third
        ELSE Ret(Raise("TypeError"), third.printed, third.calls)

\* Mutant: the right operand's __radd__ is tried for operands of one type too.
BinaryAddSameType(x, y) ==
    LET first == IF /\ x.class # y.class
                    /\ IsSubclass(y.class, x.class)
                    /\ MethodIsOverloaded(x, y)
                 THEN CallMaybe(y, "__radd__", x) ELSE Skipped
        second == CallMaybe(x, "__add__", y)
        third == IF first = Skipped THEN CallMaybe(y, "__radd__", x) ELSE Skipped
    IN  IF first.ret # NotImplemented THEN first
        ELSE IF second.ret # NotImplemented THEN second
        ELSE IF third.ret # NotImplemented THEN third
        ELSE Ret(Raise("TypeError"), third.printed, third.calls)

\* x + y.  When the type of y is a proper subclass of the type of x and gives
\* a different __radd__, y.__radd__(x) goes first; then x.__add__(y); then,
\* for operands of different types, y.__radd__(x) if it was not tried; a
\* NotImplemented from all of them is a TypeError.
BinaryAdd(x, y) ==
    LET first == IF /\ x.class # y.class
                    /\ IsSubclass(y.class, x.class)
                    /\ MethodIsOverloaded(x, y)
                 THEN CallMaybe(y, "__radd__", x) ELSE Skipped
        second == CallMaybe(x, "__add__", y)
        third == IF x.class # y.class /\ first = Skipped
                 THEN CallMaybe(y, "__radd__", x) ELSE Skipped
    IN  IF first.ret # NotImplemented THEN first
        ELSE IF second.ret # NotImplemented THEN second
        ELSE IF third.ret # NotImplemented THEN third
        ELSE Ret(Raise("TypeError"), third.printed, third.calls)

\* ---- str(x), repr(x) ----

\* object.__repr__(self): the default text, with the object's address.
DefaultRepr(x) == PyStr(<<"<__main__.", x.class, " object at ", "0x", ">">>)

\* NameRepr.__repr__(self): return self.name
NameRepr__repr__(self) == Ret(PyStr(self.name), <<>>, << <<"NameRepr", "__repr__">> >>)

\* NameStr.__str__(self): return f'I am {self.name}'
NameStr__str__(self) ==
    Ret(PyStr(<<"I am ">> \o self.name), <<>>, << <<"NameStr", "__str__">> >>)

\* repr(x): the __repr__ of x's type.
ReprOf(x) ==
    IF Lookup(x.class, "__repr__") = "NameRepr" THEN NameRepr__repr__(x)
    ELSE Ret(DefaultRepr(x), <<>>, << <<"object", "__repr__">> >>)

\* Mutant: object.__str__ gives the default text itself.
StrNoFallback(x) ==
    IF Lookup(x.class, "__str__") = "NameStr" THEN NameStr__str__(x)
    ELSE Ret(DefaultRepr(x), <<>>, << <<"object", "__str__">> >>)

\* str(x): the __str__ of x's type; object.__str__ returns repr(self).
StrOf(x) ==
    IF Lookup(x.class, "__str__") = "NameStr" THEN NameStr__str__(x)
    ELSE LET r == ReprOf(x)
         IN  Ret(r.ret, r.printed, << <<"object", "__str__">> >> \o r.calls)

\* ---- x.name ----

BoundMethod(c, name, obj) == [type |-> "method", func |-> <<c, name>>, self |-> obj]

\* l[i], counted from 0.
Item(l, i) == l.v[i + 1]

RECURSIVE GetAttr(_, _)

\* GetAndSet.__getattr__(self, name); without a return it gives None.
GetAndSet__getattr__(self, name) ==
    IF name \in {"add", "addition"}
    THEN LET r == GetAttr(self, "add")
         IN  Ret(r.ret, r.printed, << <<"GetAndSet", "__getattr__">> >> \o r.calls)
    ELSE IF name = "hello"
    THEN Ret(None, << <<"I am 42">> >>, << <<"GetAndSet", "__getattr__">> >>)
    ELSE Ret(None, <<>>, << <<"GetAndSet", "__getattr__">> >>)

\* Mutant: a name that the normal lookup does not find is an AttributeError.
GetAttrNoHook(obj, name) ==
    IF name \in DOMAIN obj \ {"class"} THEN Ret(obj[name], <<>>, <<>>)
    ELSE IF Lookup(obj.class, name) # NotFound
    THEN Ret(BoundMethod(Lookup(obj.class, name), name, obj), <<>>, <<>>)
    ELSE Ret(Raise("AttributeError"), <<>>, <<>>)

\* obj.name: the instance's own attributes, then the classes of its type's
\* method resolution order; only when both fail, the type's __getattr__.
GetAttr(obj, name) ==
    IF name \in DOMAIN obj \ {"class"} THEN Ret(obj[name], <<>>, <<>>)
    ELSE IF Lookup(obj.class, name) # NotFound
    THEN Ret(BoundMethod(Lookup(obj.class, name), name, obj), <<>>, <<>>)
    ELSE IF Lookup(obj.class, "__getattr__") = "GetAndSet"
    THEN GetAndSet__getattr__(obj, name)
    ELSE Ret(Raise("AttributeError"), <<>>, <<>>)

\* GetAndSet.add(self, y): return self.values[0] + y.values[1]
GetAndSet_add(self, y) ==
    Ret(PyInt(Item(GetAttr(self, "values").ret, 0) + Item(GetAttr(y, "values").ret, 1)),
        <<>>, << <<"GetAndSet", "add">> >>)

\* f(arg) for the value f: a bound method runs its function, anything else
\* of the model is not callable.
Call(f, arg) ==
    IF f.type = "method" /\ f.func = <<"GetAndSet", "add">> THEN GetAndSet_add(f.self, arg)
    ELSE Ret(Raise("TypeError"), <<>>, <<>>)

\* The outcome of an evaluation that gave r.
Outcome(r) ==
    IF r.ret.type = "raise"
    THEN [kind |-> r.ret.exception, value |-> None, printed |-> r.printed, calls |-> r.calls]
    ELSE [kind |-> "value", value |-> r.ret, printed |-> r.printed, calls |-> r.calls]

\* ---- the expressions evaluated ----

\* get = GetAndSet()
get == [class |-> "GetAndSet", values |-> [type |-> "list", v |-> <<1, 2, 3, 4, 5>>]]

\* Sums of two instances of the four value classes, str() and repr() of an
\* instance of the four name classes, and reads and calls of attributes of
\* get.
Expressions ==
    LET names == {<<"val left">>, <<"val left2">>}
        values == [class : {"NamedValue", "ValueLeft", "ValueRight", "Value"}, name : names]
        named == [class : {"Name", "NameRepr", "NameStr", "NameStrRepr"}, name : names]
        attrs == {"add", "addition", "hello", "hi", "values", "name", "__class__", "__foo__"}
    IN  [op : {"add"}, left : values, right : values]
        \cup [op : {"str", "repr"}, arg : named]
        \cup [op : {"getattr"}, obj : {get}, name : attrs]
        \cup [op : {"call"}, obj : {get}, name : attrs, arg : {get}]

InitDunder ==
    /\ WorkflowInit
    /\ NotebookIdle
    /\ ToyIdle
    /\ LookIdle
    /\ expr \in Expressions
    /\ outcome = NoOutcome

\* left + right
EvalAdd ==
    /\ expr.op = "add" /\ outcome = NoOutcome
    /\ outcome' = Outcome(BinaryAdd(expr.left, expr.right))
    /\ UNCHANGED <<expr, bin_weights, reconstructed, cell, data_df, bkg_df, hist, mc_df, files>>
    /\ UNCHANGED <<wfVars, swVars>>

\* str(arg)
EvalStr ==
    /\ expr.op = "str" /\ outcome = NoOutcome
    /\ outcome' = Outcome(StrOf(expr.arg))
    /\ UNCHANGED <<expr, bin_weights, reconstructed, cell, data_df, bkg_df, hist, mc_df, files>>
    /\ UNCHANGED <<wfVars, swVars>>

\* repr(arg)
EvalRepr ==
    /\ expr.op = "repr" /\ outcome = NoOutcome
    /\ outcome' = Outcome(ReprOf(expr.arg))
    /\ UNCHANGED <<expr, bin_weights, reconstructed, cell, data_df, bkg_df, hist, mc_df, files>>
    /\ UNCHANGED <<wfVars, swVars>>

\* obj.name, getattr(obj, 'name')
EvalGetattr ==
    /\ expr.op = "getattr" /\ outcome = NoOutcome
    /\ outcome' = Outcome(GetAttr(expr.obj, expr.name))
    /\ UNCHANGED <<expr, bin_weights, reconstructed, cell, data_df, bkg_df, hist, mc_df, files>>
    /\ UNCHANGED <<wfVars, swVars>>

\* obj.name(arg)
EvalCall ==
    /\ expr.op = "call" /\ outcome = NoOutcome
    /\ LET f == GetAttr(expr.obj, expr.name)
           r == IF f.ret.type = "raise" THEN f ELSE Call(f.ret, expr.arg)
       IN  outcome' = Outcome(Ret(r.ret, f.printed \o r.printed, f.calls \o r.calls))
    /\ UNCHANGED <<expr, bin_weights, reconstructed, cell, data_df, bkg_df, hist, mc_df, files>>
    /\ UNCHANGED <<wfVars, swVars>>

SpecDunder ==
    InitDunder /\ [][EvalAdd \/ EvalStr \/ EvalRepr \/ EvalGetattr \/ EvalCall]_vars

(***************************************************************************)
(* The first-look notebook.  A DataFrame is the sequence of its rows; a row *)
(* keeps the index it was loaded with.  Masses are in GeV.                  *)
(***************************************************************************)
\* bins=100
HistBins == 100

\* Masses below the range, on and between edges of the bins around 3.0, in
\* the peak, on its upper cut, and on the upper end of the range.  Every
\* mass is a number: the notebook's histograms without a range need that.
MassValues ==
    {Rat(27, 10), Rat(29975, 10000), Rat(2999, 1000), Num(3), Rat(3004, 1000),
     Rat(31, 10), Rat(32, 10), Rat(35, 10)}

\* data_df = tree.arrays(library='pd'): rows indexed 0, 1, ...
DataFrames ==
    {[i \in 1..Len(m) |-> [index |-> i - 1, Jpsi_M |-> m[i]]] :
        m \in UNION {[1..k -> MassValues] : k \in 0..MaxRows}}

\* Mutant: the edges of one bin less, `bins` taken as the number of edges.
EdgesOneLess(n, lo, hi) ==
    [k \in 1..n |-> RAdd(lo, RMul(Num(k - 1), RDiv(RSub(hi, lo), Num(n - 1))))]

\* The n + 1 edges of n equal bins over [lo, hi].
Edges(n, lo, hi) ==
    [k \in 1..(n + 1) |-> RAdd(lo, RMul(Num(k - 1), RDiv(RSub(hi, lo), Num(n))))]

\* The bin, counted from 1, of x among n equal bins over [lo, hi], 0 for an
\* x outside the range: a bin holds its lower edge, and the last bin its
\* upper edge too.
BinOf(x, n, lo, hi) ==
    IF RLess(x, lo) \/ RLess(hi, x) \/ IsNaN(x) THEN 0
    ELSE IF x = hi THEN n
    ELSE LET q == RDiv(RMul(RSub(x, lo), Num(n)), RSub(hi, lo))
         IN  (q[1] \div q[2]) + 1

\* The counts of n bins, from the bin of every entry.
Counts(bin, n) == [k \in 1..n |-> Cardinality({i \in 1..Len(bin) : bin[i] = k})]

\* h, bins = np.histogram(a, bins=n, range=[lo, hi])
Histogram(a, n, lo, hi) ==
    [h |-> Counts([i \in 1..Len(a) |-> BinOf(a[i], n, lo, hi)], n),
     bins |-> Edges(n, lo, hi)]

\* plot_mass(df): h, bins = np.histogram(df['Jpsi_M'], bins=100, range=[2.75, 3.5])
PlotMass(df) ==
    Histogram([i \in 1..Len(df) |-> df[i].Jpsi_M], HistBins, Rat(275, 100), Rat(35, 10))

\* Mutant: the bounds of the window taken as part of the window.
QueryInclusive(df) ==
    SelectSeq(df, LAMBDA r : ~(RLeq(Num(3), r.Jpsi_M) /\ RLeq(r.Jpsi_M, Rat(32, 10))))

\* df.query('~(3.0 < Jpsi_M < 3.2)'): a new DataFrame of the rows that the
\* expression is true of, in their order and with their indices.
Query(df) ==
    SelectSeq(df, LAMBDA r : ~(RLess(Num(3), r.Jpsi_M) /\ RLess(r.Jpsi_M, Rat(32, 10))))

InitSideband ==
    /\ WorkflowInit
    /\ NotebookIdle
    /\ ToyIdle
    /\ DunderIdle
    /\ cell = "loaded"
    /\ data_df \in DataFrames
    /\ bkg_df = <<>>
    /\ hist = [h |-> <<>>, bins |-> <<>>]
    /\ mc_df = <<>>
    /\ files = [pc |-> "none"]

\* plot_mass(data_df, ...)
CellPlotMass ==
    /\ cell = "loaded"
    /\ hist' = PlotMass(data_df)
    /\ cell' = "plotted"
    /\ UNCHANGED <<data_df, bkg_df, mc_df>>
    /\ UNCHANGED <<bin_weights, reconstructed, expr, outcome, files, wfVars, swVars>>

\* bkg_df = data_df.query('~(3.0 < Jpsi_M < 3.2)'); plot_mass(bkg_df)
CellSideband ==
    /\ cell = "plotted"
    /\ bkg_df' = Query(data_df)
    /\ hist' = PlotMass(bkg_df')
    /\ cell' = "sideband"
    /\ UNCHANGED <<data_df, mc_df>>
    /\ UNCHANGED <<bin_weights, reconstructed, expr, outcome, files, wfVars, swVars>>

SpecSideband == InitSideband /\ [][CellPlotMass \/ CellSideband]_vars

\* ---- the simulated sample ----

\* sqrt(x) and arctanh(x), kept as the function applied to its exact argument.
Sqrt(x) == [fn |-> "sqrt", of |-> x]
Arctanh(x) == [fn |-> "arctanh", of |-> x]

\* x**2 + y**2 + z**2
SumOfSquares(x, y, z) == RAdd(RMul(x, x), RAdd(RMul(y, y), RMul(z, z)))

\* Momentum components of the two muons, and the J/psi's Jpsi_PZ and Jpsi_P.
McRows ==
    LET transverse == {Num(0), Num(1)}
    IN  [mup_PX : transverse, mup_PY : transverse, mup_PZ : {Num(1), Num(2)},
         mum_PX : transverse, mum_PY : transverse, mum_PZ : {Num(1), Num(2)},
         Jpsi_PZ : {Num(3)}, Jpsi_P : {Num(4), Num(5)}]

\* df.eval('name = ...', inplace=True): row i gets values[i] as column name.
WithColumn(df, name, values) ==
    [i \in 1..Len(df) |->
        [c \in DOMAIN df[i] \cup {name} |-> IF c = name THEN values[i] ELSE df[i][c]]]

\* data_df.eval('mup_P = sqrt(mup_PX**2 + mup_PY**2 + mup_PZ**2)', inplace=True)
DataMupP(r) == Sqrt(SumOfSquares(r.mup_PX, r.mup_PY, r.mup_PZ))

\* mc_df.eval('Jpsi_eta = arctanh(Jpsi_PZ/Jpsi_P)', inplace=True)
McJpsiEta(r) == Arctanh(RDiv(r.Jpsi_PZ, r.Jpsi_P))
\* mc_df.eval('mup_P = sqrt(mum_PX**2 + mum_PY**2 + mum_PZ**2)', inplace=True)
McMupP(r) == Sqrt(SumOfSquares(r.mum_PX, r.mum_PY, r.mum_PZ))
\* mc_df.eval('mum_P = sqrt(mum_PX**2 + mum_PY**2 + mum_PZ**2)', inplace=True)
McMumP(r) == Sqrt(SumOfSquares(r.mum_PX, r.mum_PY, r.mum_PZ))

InitMc ==
    /\ WorkflowInit
    /\ NotebookIdle
    /\ ToyIdle
    /\ DunderIdle
    /\ cell = "sideband"
    /\ data_df = <<>>
    /\ bkg_df = <<>>
    /\ hist = [h |-> <<>>, bins |-> <<>>]
    /\ mc_df = <<>>
    /\ files = [pc |-> "none"]

\* mc_df = mc_file['DecayTree'].arrays(library='pd'), then the three evals.
CellMc(rows) ==
    /\ cell = "sideband"
    /\ LET a == WithColumn(rows, "Jpsi_eta", [i \in 1..Len(rows) |-> McJpsiEta(rows[i])])
           b == WithColumn(a, "mup_P", [i \in 1..Len(a) |-> McMupP(a[i])])
       IN  mc_df' = WithColumn(b, "mum_P", [i \in 1..Len(b) |-> McMumP(b[i])])
    /\ cell' = "mc"
    /\ UNCHANGED <<data_df, bkg_df, hist>>
    /\ UNCHANGED <<bin_weights, reconstructed, expr, outcome, files, wfVars, swVars>>

SpecMc == InitMc /\ [][\E r \in McRows : CellMc(<<r>>)]_vars

(***************************************************************************)
(* The script of the "Deploy webpage" step, run by `bash -l {0}`.  The run  *)
(* is runs[1]; `shell` holds the line the script is about to execute, the  *)
(* three variables the script exports and the value of                     *)
(* secrets.GITHUB_TOKEN.  A shell variable is unset, set, or set and        *)
(* exported; what the login shell starts with is not known.                *)
(***************************************************************************)
\* Mutant: the ref kept whole.
KeepRef(ref) == ref

\* ${GITHUB_REF#refs/heads/}: the ref without a leading "refs/heads/", or
\* the whole ref when it does not start with it.
StripRefsHeads(ref) == IF IsBranch(ref) THEN RefName(ref) ELSE ref

\* A run has been started and the shell that will run the script has some
\* environment.
InitDeploy ==
    /\ \E e \in Events :
          /\ OnTriggers(e)
          /\ event = e
          /\ runs = <<NewRun(e)>>
    /\ \E branch \in {[set |-> FALSE, exported |-> FALSE, value |-> <<>>],
                      [set |-> TRUE, exported |-> FALSE, value |-> DevRef],
                      [set |-> TRUE, exported |-> TRUE, value |-> DevRef]},
          slug, token \in {[set |-> FALSE, exported |-> FALSE, value |-> ""],
                           [set |-> TRUE, exported |-> FALSE, value |-> "stale"],
                           [set |-> TRUE, exported |-> TRUE, value |-> "stale"]},
          secret \in {"ghs_1", "ghs_2"} :
          shell = [line |-> "none",
                   env |-> [TRAVIS_BRANCH |-> branch, TRAVIS_REPO_SLUG |-> slug,
                            INPUT_GITHUB_TOKEN |-> token],
                   GITHUB_TOKEN |-> secret]
    /\ NotebookIdle
    /\ LessonsIdle

\* A step before "Deploy webpage" exits with `code`; when that starts the
\* deploy step, its script is at its first line.
EarlierStep(code) ==
    /\ runs[1].status = "in_progress"
    /\ RunningStep(runs[1]) # Deploy
    /\ runs' = [runs EXCEPT ![1] = StepExit(runs[1], RunningStep(runs[1]), code)]
    /\ shell' = IF runs'[1].steps[Deploy] = "running"
                THEN [shell EXCEPT !.line = "export TRAVIS_BRANCH"]
                ELSE shell
    /\ UNCHANGED <<event, swVars, lessonVars>>

\* The lines of the script, in order; the exit code of the script is that
\* of its last command.
DeployWebpage ==
    /\ runs[1].status = "in_progress"
    /\ runs[1].steps[Deploy] = "running"
    /\ UNCHANGED <<event, swVars, lessonVars>>
    /\ \/ /\ shell.line = "export TRAVIS_BRANCH"
          /\ shell' = [shell EXCEPT
                         !.line = "export TRAVIS_REPO_SLUG",
                         !.env.TRAVIS_BRANCH =
                             [set |-> TRUE, exported |-> TRUE,
                              value |-> StripRefsHeads(runs[1].ref)]]
          /\ runs' = runs
       \/ /\ shell.line = "export TRAVIS_REPO_SLUG"
          /\ shell' = [shell EXCEPT
                         !.line = "export INPUT_GITHUB_TOKEN",
                         !.env.TRAVIS_REPO_SLUG =
                             [set |-> TRUE, exported |-> TRUE,
                              value |-> runs[1].repository]]
          /\ runs' = runs
       \/ /\ shell.line = "export INPUT_GITHUB_TOKEN"
          /\ shell' = [shell EXCEPT
                         !.line = "starterkit_ci deploy",
                         !.env.INPUT_GITHUB_TOKEN =
                             [set |-> TRUE, exported |-> TRUE,
                              value |-> shell.GITHUB_TOKEN]]
          /\ runs' = runs
       \/ /\ shell.line = "starterkit_ci deploy"
          /\ \E code \in ExitCodes :
                runs' = [runs EXCEPT ![1] = StepExit(runs[1], Deploy, code)]
          /\ shell' = [shell EXCEPT !.line = "exit"]

SpecDeploy ==
    InitDeploy /\ [][(\E code \in ExitCodes : EarlierStep(code)) \/ DeployWebpage]_vars

(***************************************************************************)
(* First look: the cells that touch the data files.  `files` holds the      *)
(* statement to execute next, what the names my_file, mc_file and tree are  *)
(* bound to, and every read made through them with the state the file was  *)
(* in.  Opening and reading a remote file can raise; an exception ends the *)
(* cell it is raised in, and so does the NameError of an unbound name.      *)
(***************************************************************************)
\* A read of `file` through the name `via`.
Read(f, via, file) ==
    [f EXCEPT !.reads = Append(@, [via |-> via, file |-> file, state |-> f[file]])]

\* Mutant: a `with` block that leaves its file open.
WithExitLeavesOpen(f) == f

\* Leaving the block of `with uproot.open(...) as mc_file:`.
WithExit(f) == [f EXCEPT !.mc_file = "closed"]

InitFiles ==
    /\ WorkflowInit /\ NotebookIdle /\ ToyIdle /\ DunderIdle
    /\ cell = "idle"
    /\ data_df = <<>>
    /\ bkg_df = <<>>
    /\ hist = [h |-> <<>>, bins |-> <<>>]
    /\ mc_df = <<>>
    /\ files = [pc |-> "uproot.open", my_file |-> "unbound", mc_file |-> "unbound",
                tree |-> "unbound", reads |-> <<>>]

\* my_file = uproot.open(...); my_file.keys()
CellOpen ==
    /\ UNCHANGED <<data_df, mc_df>>
    /\ UNCHANGED <<bin_weights, reconstructed, expr, outcome, cell, bkg_df, hist>>
    /\ UNCHANGED <<wfVars, swVars>>
    /\ \/ /\ files.pc = "uproot.open"
          /\ \E ok \in BOOLEAN :
                files' = IF ok
                         THEN [files EXCEPT !.my_file = "open", !.pc = "my_file.keys"]
                         ELSE [files EXCEPT !.pc = "my_file['DecayTree']"]
       \/ /\ files.pc = "my_file.keys"
          /\ files' = [Read(files, "my_file", "my_file") EXCEPT
                         !.pc = "my_file['DecayTree']"]

\* tree = my_file['DecayTree']; tree['Jpsi_M'].array(library='np')
CellTree ==
    /\ UNCHANGED <<data_df, mc_df>>
    /\ UNCHANGED <<bin_weights, reconstructed, expr, outcome, cell, bkg_df, hist>>
    /\ UNCHANGED <<wfVars, swVars>>
    /\ \/ /\ files.pc = "my_file['DecayTree']"
          /\ IF files.my_file = "unbound"
             THEN files' = [files EXCEPT !.pc = "tree.arrays"]
             ELSE \E ok \in BOOLEAN :
                     files' = IF ok
                              THEN [Read(files, "my_file", "my_file") EXCEPT
                                      !.tree = "my_file", !.pc = "tree['Jpsi_M'].array"]
                              ELSE [Read(files, "my_file", "my_file") EXCEPT
                                      !.pc = "tree.arrays"]
       \/ /\ files.pc = "tree['Jpsi_M'].array"
          /\ files' = [Read(files, "tree", files.tree) EXCEPT !.pc = "tree.arrays"]

\* data_df = tree.arrays(library='pd'); my_file.close()
CellLoad ==
    /\ UNCHANGED mc_df
    /\ UNCHANGED <<bin_weights, reconstructed, expr, outcome, cell, bkg_df, hist>>
    /\ UNCHANGED <<wfVars, swVars>>
    /\ \/ /\ files.pc = "tree.arrays"
          /\ IF files.tree = "unbound"
             THEN /\ files' = [files EXCEPT !.pc = "with uproot.open"]
                  /\ data_df' = data_df
             ELSE \/ /\ files' = [Read(files, "tree", files.tree) EXCEPT
                                    !.pc = "with uproot.open"]
                     /\ data_df' = data_df
                  \/ /\ files' = [Read(files, "tree", files.tree) EXCEPT
                                    !.pc = "my_file.close"]
                     /\ data_df' \in {<<>>} \cup {<<[index |-> 0, Jpsi_M |-> m]>> :
                                                     m \in MassValues}
       \/ /\ files.pc = "my_file.close"
          /\ files' = [files EXCEPT !.my_file = "closed", !.pc = "with uproot.open"]
          /\ data_df' = data_df

\* with uproot.open(...) as mc_file: mc_df = mc_file['DecayTree'].arrays(library='pd')
CellWith ==
    /\ UNCHANGED data_df
    /\ UNCHANGED <<bin_weights, reconstructed, expr, outcome, cell, bkg_df, hist>>
    /\ UNCHANGED <<wfVars, swVars>>
    /\ \/ /\ files.pc = "with uproot.open"
          /\ \E ok \in BOOLEAN :
                files' = IF ok
                         THEN [files EXCEPT !.mc_file = "open",
                                            !.pc = "mc_file['DecayTree'].arrays"]
                         ELSE [files EXCEPT !.pc = "done"]
          /\ mc_df' = mc_df
       \/ /\ files.pc = "mc_file['DecayTree'].arrays"
          /\ files' = [Read(files, "mc_file", "mc_file") EXCEPT !.pc = "__exit__"]
          /\ \/ mc_df' = mc_df
             \/ \E r \in McRows : mc_df' = <<r>>
       \/ /\ files.pc = "__exit__"
          /\ files' = [WithExit(files) EXCEPT !.pc = "done"]
          /\ mc_df' = mc_df

SpecFiles == InitFiles /\ [][CellOpen \/ CellTree \/ CellLoad \/ CellWith]_vars

(***************************************************************************)
(* The workflow's specification.                                           *)
(***************************************************************************)
Init ==
    /\ WorkflowInit
    /\ NotebookIdle
    /\ LessonsIdle

Next ==
    \/ \E e \in Events : Deliver(e)
    \/ \E r \in 1..MaxRuns, code \in ExitCodes : FinishStep(r, code)

Spec == Init /\ [][Next]_vars

(***************************************************************************)
(* Properties of the workflow.                                             *)
(***************************************************************************)
RunIds == DOMAIN runs
JobRan(run) == \E i \in 1..NSteps : run.steps[i] \in Executed
IsUpstreamMasterPush(run) ==
    run.event_name = "push" /\ run.repository = Upstream /\ run.ref = MasterRef

\* C1: the "Deploy webpage" step executes only in a run whose event is push,
\* whose repository is hsf-training/analysis-essentials and whose ref is
\* refs/heads/master; in a run of any other kind the step never executes, and
\* such a run that succeeds has skipped it.
C1_DeployGated ==
    \A r \in RunIds :
        /\ runs[r].steps[Deploy] \in Executed => IsUpstreamMasterPush(runs[r])
        /\ ~IsUpstreamMasterPush(runs[r]) /\ runs[r].status = "success"
              => runs[r].steps[Deploy] = "skipped"

\* A master push to the upstream repository is deploying while a pull_request
\* run has succeeded with its deploy step skipped.
C1_Witness ==
    \E r, q \in RunIds :
        /\ IsUpstreamMasterPush(runs[r]) /\ runs[r].steps[Deploy] = "running"
        /\ runs[q].event_name = "pull_request" /\ runs[q].status = "success"
        /\ runs[q].steps[Deploy] = "skipped"

\* C2: at any time at most one run per ref (of one repository) is in
\* progress, and a run is cancelled only in the step that starts a newer run
\* for the same ref of the same repository.
C2_OneRunPerRef ==
    /\ [](\A r, q \in RunIds :
            /\ r # q
            /\ runs[r].status = "in_progress" /\ runs[q].status = "in_progress"
            /\ runs[r].repository = runs[q].repository
            => runs[r].ref # runs[q].ref)
    /\ [][\A r \in RunIds :
            runs[r].status # "cancelled" /\ runs'[r].status = "cancelled"
            => /\ Len(runs') = Len(runs) + 1
               /\ runs'[Len(runs')].ref = runs[r].ref
               /\ runs'[Len(runs')].repository = runs[r].repository]_vars

\* An earlier run was cancelled and a newer run for the same ref is in
\* progress.
C2_Witness ==
    \E r, q \in RunIds :
        /\ r < q
        /\ runs[r].status = "cancelled" /\ runs[q].status = "in_progress"
        /\ runs[r].ref = runs[q].ref /\ runs[r].repository = runs[q].repository

\* C3: in a run whose job ran, a step that exited non-zero means the job
\* failed and no later step executed; a finished run all of whose executed
\* steps exited 0 has succeeded.
C3_FailFast ==
    \A r \in RunIds :
        JobRan(runs[r]) =>
            /\ \A i \in 1..NSteps :
                 runs[r].steps[i] = "failure"
                 => /\ runs[r].status = "failure"
                    /\ \A j \in (i + 1)..NSteps : runs[r].steps[j] \notin Executed
            /\ (/\ runs[r].status # "in_progress"
                /\ \A i \in 1..NSteps :
                     runs[r].steps[i] \in Executed => runs[r].steps[i] = "success")
               => runs[r].status = "success"

\* One run failed in `starterkit_ci build`, another succeeded.
C3_Witness ==
    \E r, q \in RunIds :
        /\ runs[r].steps[Build] = "failure" /\ runs[r].status = "failure"
        /\ runs[r].steps[Deploy] = "skipped"
        /\ runs[q].status = "success" /\ runs[q].steps[Deploy] = "success"

\* C4: a step has started only if every step before it, in the order
\* checkout, conda setup, install, build, deploy, has exited 0; so deploy
\* starts only after a build of the same run that exited 0.
C4_StepOrder ==
    \A r \in RunIds :
        \A i \in 1..NSteps :
            runs[r].steps[i] \in Executed
            => \A j \in 1..(i - 1) : runs[r].steps[j] = "success"

\* The deploy step of a run is running.
C4_Witness ==
    \E r \in RunIds :
        runs[r].steps[Deploy] = "running" /\ runs[r].steps[Build] = "success"

\* C5: a run that has failed, was cancelled, succeeded or was skipped never
\* changes again, and a step that has started never goes back to pending and
\* never starts again.
C5_NoRetry ==
    [][\A r \in RunIds :
          /\ runs[r].status \in Terminal => runs'[r] = runs[r]
          /\ \A i \in 1..NSteps :
               /\ runs[r].steps[i] # "pending" => runs'[r].steps[i] # "pending"
               /\ runs[r].steps[i] \notin {"pending", "running"}
                    => runs'[r].steps[i] = runs[r].steps[i]]_vars

\* A failed run and a cancelled run exist.
C5_Witness ==
    \E r, q \in RunIds :
        runs[r].status = "failure" /\ runs[q].status = "cancelled"

StartsRun == Len(runs') = Len(runs) + 1

\* The events C6 names: any pull_request event, a push of any tag, a push to
\* the branch master.
C6_Named(e) ==
    \/ e.event_name = "pull_request"
    \/ e.event_name = "push" /\ (IsTag(e.ref) \/ e.ref = MasterRef)

\* C6 as stated: a delivered event starts a run exactly when it is a
\* pull_request event, a push of a tag or a push to master.
C6_Original ==
    [][/\ StartsRun => C6_Named(event')
       /\ event' # event /\ ~StartsRun => ~C6_Named(event')]_vars

\* C6 as amended.
C6_Amended(e) ==
    \/ e.event_name = "pull_request" /\ e.action \in {"opened", "synchronize", "reopened"}
    \/ e.event_name = "push" /\ IsTag(e.ref) /\ Len(e.ref) = 3
    \/ e.event_name = "push" /\ e.ref = MasterRef

\* C6 (amended): a delivered event starts a run exactly when it is a
\* pull_request event of type opened, synchronize or reopened, a push of a
\* tag whose name holds no "/", or a push to the branch master; a push to
\* another branch never starts a run.
C6_Triggers ==
    [][/\ StartsRun => C6_Amended(event')
       /\ event' # event /\ ~StartsRun => ~C6_Amended(event')]_vars

\* A push to master started a run and the push of the tag release/v1 that
\* followed started none.
C6_Witness ==
    /\ event.event_name = "push" /\ event.ref = SlashTagRef
    /\ Len(runs) = 1 /\ runs[1].ref = MasterRef

(***************************************************************************)
(* Properties of the sWeights computations.                                *)
(***************************************************************************)
\* The sum over the events of the weights of class n.
SumOfWeights(result, n) == RSum([e \in 1..Len(result.w) |-> result.w[e][n]])

\* C7: when weights are produced, the weights of each class summed over all
\* events equal that class's yield: the fitted yield N_n for the weights
\* W_n(x), the sum of the normalised probabilities of the class for the
\* weights computed from probabilities.
C7_SumsRecoverYields ==
    /\ weights.status = "ok"
       => \A n \in Classes : SumOfWeights(weights, n) = Num(yields[n])
    /\ sWeights.status = "ok"
       => \A n \in Classes : SumOfWeights(sWeights, n) = ClassYield(probs, n)

\* Both computations have produced weights for three events with unequal
\* yields, and some weight is negative.
C7_Witness ==
    /\ pc = "done" /\ ~base.set
    /\ Len(pdf) = 3 /\ yields.sig # yields.bck
    /\ weights.status = "ok" /\ sWeights.status = "ok"
    /\ \E e \in 1..Len(pdf) : weights.w[e].sig[1] < 0

C9_RescaleInvariant ==
    base.set /\ pc = "done"
    => sWeights = base.sWeights /\ weights = base.weights

\* The cells have run again on a sample with one event rescaled, and
\* produced weights.
C9_Witness ==
    /\ base.set /\ pc = "done"
    /\ sWeights.status = "ok" /\ weights.status = "ok"
    /\ Len(pdf) = 3

\* The two probability vectors are linearly dependent: every 2x2 minor of
\* the events-by-classes matrix is zero.
LinearlyDependent(p) ==
    \A e1, e2 \in 1..Len(p) :
        RMul(p[e1].sig, p[e2].bck) = RMul(p[e2].sig, p[e1].bck)

DetV(p) ==
    RSub(RMul(SecondMoment(p, "sig", "sig"), SecondMoment(p, "bck", "bck")),
         RMul(SecondMoment(p, "sig", "bck"), SecondMoment(p, "sig", "bck")))

\* C10: when the probability vectors of the two classes are linearly
\* dependent, V_ss V_bb - V_sb^2 = 0 and the computation ends in an error,
\* with no weights; when they are independent the determinant is not zero
\* and weights are produced.
C10_SingularIffDependent ==
    pc = "done"
    => IF LinearlyDependent(probs)
       THEN DetV(probs) = Zero /\ sWeights = LinAlgError
       ELSE DetV(probs) # Zero /\ sWeights.status = "ok"

\* Three events with p_s = c p_b for one c > 0: the computation has raised.
C10_Witness ==
    /\ pc = "done" /\ Len(probs) = 3
    /\ LinearlyDependent(probs) /\ probs[1].bck # Zero
    /\ sWeights = LinAlgError

\* C11: for a sample whose class probabilities are linearly independent,
\* the matrix V_ij = sum_x p_i(x) p_j(x) is symmetric (V_bs = V_sb) and
\* positive semi-definite: V_ss >= 0, V_bb >= 0 and V_ss V_bb - V_sb^2 >= 0.
C11_SymmetricPSD ==
    pc \in {"probs", "done"} /\ ~LinearlyDependent(probs)
    => /\ SecondMoment(probs, "bck", "sig") = SecondMoment(probs, "sig", "bck")
       /\ RLeq(Zero, SecondMoment(probs, "sig", "sig"))
       /\ RLeq(Zero, SecondMoment(probs, "bck", "bck"))
       /\ RLeq(Zero, DetV(probs))

\* The probabilities of three events are computed, they are linearly
\* independent, and one event has background probability zero.
C11_Witness ==
    /\ pc = "probs" /\ Len(probs) = 3
    /\ ~LinearlyDependent(probs)
    /\ \E e \in 1..Len(probs) : probs[e].bck = Zero
    /\ RLess(Zero, DetV(probs))

\* C12: after the normalisation, for every event whose two densities do not
\* sum to zero, the signal and the background probability are each in
\* [0, 1] and they sum to exactly one.
C12_ProbabilitiesNormalised ==
    pc = "probs"
    => \A e \in 1..Len(pdf) :
          RAdd(pdf[e].sig, pdf[e].bck) # Zero
          => /\ \A n \in Classes : RLeq(Zero, probs[e][n]) /\ RLeq(probs[e][n], One)
             /\ RAdd(probs[e].sig, probs[e].bck) = One

\* Three events are normalised: one with both densities zero, one with a
\* zero background density, one with unequal positive densities.
C12_Witness ==
    /\ pc = "probs" /\ Len(pdf) = 3
    /\ \E e \in 1..3 : pdf[e].sig = Zero /\ pdf[e].bck = Zero /\ IsNaN(probs[e].sig)
    /\ \E e \in 1..3 : pdf[e].bck = Zero /\ probs[e].sig = One
    /\ \E e \in 1..3 : RLess(Zero, probs[e].bck) /\ RLess(probs[e].bck, probs[e].sig)

(***************************************************************************)
(* Properties of the two-bin example.                                      *)
(***************************************************************************)
\* The weights 0.8 for the first bin and -0.2 for the second.
TextCase == bin_weights = <<Rat(8, 10), Rat(-2, 10)>>

Added == expr.op = "add" /\ outcome # NoOutcome

SubclassOnRight == expr.left.class = "ValueLeft" /\ expr.right.class = "Value"

RaddRan == \E i \in 1..Len(outcome.calls) : outcome.calls[i][2] = "__radd__"

\* The three sums of the example cells.
C15_Examples ==
    /\ expr.left.class = "ValueRight" /\ expr.right.class \in {"ValueRight", "ValueLeft"}
       => outcome.kind = "TypeError" /\ outcome.calls = <<>>
    /\ expr.left.class = "NamedValue" /\ expr.right.class = "ValueRight"
       => /\ outcome.kind = "value" /\ outcome.value = PyInt(24)
          /\ outcome.calls = << <<"ValueRight", "__radd__">> >>

Evaluated(ops) == expr.op \in ops /\ outcome # NoOutcome

\* C16: str() falls back to __repr__ when the class gives no __str__, and
\* repr() never falls back to __str__.  For a name s: str and repr of a
\* NameRepr are both s; str of a NameStr is 'I am ' + s and its repr the
\* default one; str of a NameStrRepr is 'I am ' + s and its repr is s.
C16_StrReprFallback ==
    Evaluated({"str", "repr"})
    => LET c == expr.arg.class
           s == expr.arg.name
           v == outcome.value
       IN  /\ outcome.kind = "value"
           /\ c = "NameRepr" => v = PyStr(s)
           /\ c = "NameStr" =>
                 v = IF expr.op = "str" THEN PyStr(<<"I am ">> \o s) ELSE DefaultRepr(expr.arg)
           /\ c = "NameStrRepr" =>
                 v = IF expr.op = "str" THEN PyStr(<<"I am ">> \o s) ELSE PyStr(s)
           /\ expr.op = "str" /\ Lookup(c, "__str__") = "object" => v = ReprOf(expr.arg).ret
           /\ expr.op = "repr" =>
                 \A i \in 1..Len(outcome.calls) : outcome.calls[i][2] # "__str__"

\* str() of a NameRepr was evaluated: object.__str__ ran NameRepr.__repr__.
C16_Witness ==
    /\ Evaluated({"str"}) /\ expr.arg.class = "NameRepr"
    /\ outcome.calls = << <<"object", "__str__">>, <<"NameRepr", "__repr__">> >>
    /\ outcome.value = PyStr(<<"val left2">>)

\* C17: reading from a GetAndSet an attribute that the normal lookup does
\* not find and that is none of 'add', 'addition', 'hello' gives None, and
\* no read raises AttributeError; get.addition(get) gives what get.add(get)
\* gives, values[0] + values[1] = 3.
C17_GetattrFallback ==
    /\ Evaluated({"getattr"}) =>
          /\ outcome.kind # "AttributeError"
          /\ (/\ expr.name \notin DOMAIN expr.obj \ {"class"}
              /\ Lookup(expr.obj.class, expr.name) = NotFound
              /\ expr.name \notin {"add", "addition", "hello"})
             => outcome.kind = "value" /\ outcome.value = None
    /\ Evaluated({"call"}) /\ expr.name \in {"add", "addition"} =>
          outcome.kind = "value" /\ outcome.value = PyInt(3)

\* get.hi was read: __getattr__ ran and gave None without printing.
C17_Witness ==
    /\ Evaluated({"getattr"}) /\ expr.name = "hi"
    /\ outcome.calls = << <<"GetAndSet", "__getattr__">> >>
    /\ outcome.value = None /\ outcome.printed = <<>>

(***************************************************************************)
(* Properties of the first-look notebook.                                  *)
(***************************************************************************)
\* C18: bkg_df holds exactly the rows of data_df whose Jpsi_M is <= 3.0 or
\* >= 3.2 (bounds included), in their order, and the query leaves data_df
\* as it was.
C18_SidebandRows ==
    [][cell' = "sideband" /\ cell # "sideband"
       => /\ \A i \in 1..Len(data_df) :
                (RLeq(data_df[i].Jpsi_M, Num(3)) \/ RLeq(Rat(32, 10), data_df[i].Jpsi_M))
                <=> (\E j \in 1..Len(bkg_df') : bkg_df'[j] = data_df[i])
          /\ \A j \in 1..Len(bkg_df') : \E i \in 1..Len(data_df) : bkg_df'[j] = data_df[i]
          /\ \A j, k \in 1..Len(bkg_df') : j < k => bkg_df'[j].index < bkg_df'[k].index
          /\ data_df' = data_df]_vars

\* The sidebands were taken from three rows: one on the lower bound, one on
\* the upper bound, one inside the window.
C18_Witness ==
    /\ cell = "sideband" /\ Len(data_df) = 3 /\ Len(bkg_df) = 2
    /\ \E i \in 1..3 : data_df[i].Jpsi_M = Num(3)
    /\ \E i \in 1..3 : data_df[i].Jpsi_M = Rat(32, 10)
    /\ \E i \in 1..3 : data_df[i].Jpsi_M = Rat(31, 10)

\* C20: plot_mass bins the masses in 100 bins of equal width over
\* [2.75, 3.5], and the cut value 3.0 is no edge: it lies strictly inside
\* the bin with edges 2.9975 and 3.005, which the sidebands fill only with
\* the rows of mass from 2.9975 to 3.0.
C20_BinAroundCut ==
    cell \in {"plotted", "sideband"}
    => LET CutBin == 34
       IN
       /\ Len(hist.h) = 100 /\ Len(hist.bins) = 101
       /\ hist.bins[1] = Rat(275, 100) /\ hist.bins[101] = Rat(35, 10)
       /\ \A k \in 1..100 :
             RSub(hist.bins[k + 1], hist.bins[k]) = RSub(hist.bins[2], hist.bins[1])
       /\ hist.bins[CutBin] = Rat(29975, 10000) /\ hist.bins[CutBin + 1] = Rat(3005, 1000)
       /\ RLess(hist.bins[CutBin], Num(3)) /\ RLess(Num(3), hist.bins[CutBin + 1])
       /\ \A k \in 1..101 : hist.bins[k] # Num(3)
       /\ cell = "sideband"
          => hist.h[CutBin] =
               Cardinality({i \in 1..Len(data_df) :
                              /\ RLeq(Rat(29975, 10000), data_df[i].Jpsi_M)
                              /\ RLeq(data_df[i].Jpsi_M, Num(3))})

\* The sidebands of three rows were plotted: of the two rows in the bin of
\* the cut, one above 3.0 and one below, the bin holds one.
C20_Witness ==
    /\ cell = "sideband" /\ Len(data_df) = 3
    /\ \E i \in 1..3 : data_df[i].Jpsi_M = Rat(2999, 1000)
    /\ \E i \in 1..3 : data_df[i].Jpsi_M = Rat(3004, 1000)
    /\ hist.h[34] = 1

\* C19, as stated: the column mup_P of mc_df is the magnitude of the mu+
\* momentum, by the formula of data_df's mup_P,
\* sqrt(mup_PX**2 + mup_PY**2 + mup_PZ**2): it depends on the mup_
\* components only.
C19_McMupP ==
    cell = "mc"
    => \A i \in 1..Len(mc_df) :
          /\ mc_df[i].mup_P = DataMupP(mc_df[i])
          /\ mc_df[i].mup_P
               = Sqrt(SumOfSquares(mc_df[i].mup_PX, mc_df[i].mup_PY, mc_df[i].mup_PZ))


(***************************************************************************)
(* Properties of the deploy script.                                        *)
(***************************************************************************)
\* C21: whenever the script of "Deploy webpage" is about to invoke, or has
\* invoked, `starterkit_ci deploy`, the variables TRAVIS_BRANCH,
\* TRAVIS_REPO_SLUG and INPUT_GITHUB_TOKEN are set and exported, TRAVIS_BRANCH
\* is `master` and TRAVIS_REPO_SLUG is `hsf-training/analysis-essentials`.
C21_DeployEnvironment ==
    shell.line \in {"starterkit_ci deploy", "exit"} =>
        /\ \A name \in DOMAIN shell.env :
              shell.env[name].set /\ shell.env[name].exported
        /\ shell.env.TRAVIS_BRANCH.value = <<"master">>
        /\ shell.env.TRAVIS_REPO_SLUG.value = Upstream
        /\ shell.env.INPUT_GITHUB_TOKEN.value = shell.GITHUB_TOKEN

\* `starterkit_ci deploy` was invoked and exited 0.
C21_Witness ==
    /\ shell.line = "exit"
    /\ runs[1].steps[Deploy] = "success"

(***************************************************************************)
(* Properties of the first-look notebook's data files.                     *)
(***************************************************************************)
\* C22: every read made through my_file, tree or mc_file found its file open:
\* no read follows my_file.close(), nothing uses tree or my_file after it,
\* mc_file is open only inside its `with` block and is closed once the block
\* has been left.
C22_NoReadAfterClose ==
    /\ \A i \in DOMAIN files.reads : files.reads[i].state = "open"
    /\ files.my_file = "closed" =>
          files.pc \in {"with uproot.open", "mc_file['DecayTree'].arrays",
                        "__exit__", "done"}
    /\ files.mc_file = "open" =>
          files.pc \in {"mc_file['DecayTree'].arrays", "__exit__"}
    /\ files.pc = "done" => files.mc_file \in {"unbound", "closed"}

\* Both samples were read, five reads in all, and both files are closed.
C22_Witness ==
    /\ files.pc = "done"
    /\ files.my_file = "closed" /\ files.mc_file = "closed"
    /\ Len(files.reads) = 5
    /\ data_df # <<>> /\ mc_df # <<>>

(***************************************************************************)
(* Deployments across the runs of the workflow.                            *)
(***************************************************************************)
\* C23: at any time at most one run has its "Deploy webpage" step in
\* progress; a run whose deploy step is in progress belongs to the
\* concurrency group of refs/heads/master in the upstream repository, where
\* starting a newer run cancels the run in progress.
C23_OneDeployInProgress ==
    /\ \A r, q \in RunIds :
          runs[r].steps[Deploy] = "running" /\ runs[q].steps[Deploy] = "running"
          => r = q
    /\ \A r \in RunIds :
          runs[r].steps[Deploy] = "running"
          => /\ runs[r].status = "in_progress"
             /\ ConcurrencyGroup(runs[r]) = <<Upstream, MasterRef>>

\* A newer push to master is deploying; the run it superseded was cancelled
\* in its deploy step.
C23_Witness ==
    \E r, q \in RunIds :
        /\ r < q
        /\ runs[r].steps[Deploy] = "cancelled"
        /\ runs[q].steps[Deploy] = "running"
====
